---- MODULE Spec2Model ----
(***************************************************************************)
(* The component registry of fetch-ui: the Express handlers of             *)
(* ComponentsController (list, create, getDetails, getVersion), the        *)
(* validateComponent middleware and the errorHandler, running over         *)
(* FilesystemStorage on a file tree.                                       *)
(*                                                                         *)
(* Strings that are used as paths are kept as the sequence of their        *)
(* '/'-separated segments: the string "components/a/2.0.0" is              *)
(* <<"components", "a", "2.0.0">>, and a template literal                  *)
(* `components/${name}` is the concatenation <<"components">> \o name.     *)
(* Where the code compares strings (Array.prototype.sort) the segments are *)
(* expanded to their UTF-16 code units, '/' included.                      *)
(*                                                                         *)
(* A POST is a process: its handler is suspended at every await of a file  *)
(* system call, and other requests run in between.  The GET handlers are   *)
(* taken in one step on the file tree they find.                           *)
(*                                                                         *)
(* Beside the registry (Spec) there are more specifications over the same  *)
(* variables.  Of the registry: NamesSpec, its requests with names and     *)
(* versions that hold '/' or '..'; StoredSpec, its GET handlers on a       *)
(* storage root as found; ErrorSpec, errorHandler alone.  StorageSpec, the *)
(* awaited calls of FilesystemStorage on an empty root.  CliSpec, one run  *)
(* of the fetch-ui command line.  And, from the design the add command is  *)
(* to call once it is implemented: InstallSpec, one transaction of the     *)
(* Installation Orchestrator (CancelSpec, with cancellation), and          *)
(* ResolveSpec, one resolve of the Dependency Resolver with its fetches.   *)
(***************************************************************************)
EXTENDS Integers, Sequences, FiniteSets, TLC

\* ------------------------------------------------------------ bounds

\* POST requests started in one behaviour.
MaxReqs == 2

\* ------------------------------------------------------------ strings

\* A key that is missing from a JSON object (undefined in JavaScript).
Absent == "<absent>"

\* UTF-16 code units of the path segments the model uses.
CodeUnits ==
  [s \in {"components", "component.json", "a", "b", "2.0.0", "10.0.0"} |->
     CASE s = "components"     -> <<99, 111, 109, 112, 111, 110, 101, 110, 116, 115>>
       [] s = "component.json" -> <<99, 111, 109, 112, 111, 110, 101, 110, 116, 46,
                                    106, 115, 111, 110>>
       [] s = "a"              -> <<97>>
       [] s = "b"              -> <<98>>
       [] s = "2.0.0"          -> <<50, 46, 48, 46, 48>>
       [] s = "10.0.0"         -> <<49, 48, 46, 48, 46, 48>>]

\* The code unit of '/'.
SlashCode == 47

\* The code units of a path string, from its segments.
RECURSIVE PathUnits(_)
PathUnits(p) ==
  IF p = <<>> THEN <<>>
  ELSE IF Len(p) = 1 THEN CodeUnits[p[1]]
  ELSE CodeUnits[p[1]] \o <<SlashCode>> \o PathUnits(Tail(p))

\* s sorts before t in the default order of Array.prototype.sort: code unit
\* by code unit, a proper prefix first.
RECURSIVE UnitsLess(_, _)
UnitsLess(s, t) ==
  IF t = <<>> THEN FALSE
  ELSE IF s = <<>> THEN TRUE
  ELSE IF s[1] # t[1] THEN s[1] < t[1]
  ELSE UnitsLess(Tail(s), Tail(t))

StringLess(p, q) == UnitsLess(PathUnits(p), PathUnits(q))

\* array.sort() on an array of distinct strings: ascending by code units.
\* Each string is expanded once, to the pair <<code units, string>>.
RECURSIVE SortKeyed(_)
SortKeyed(K) ==
  IF K = {} THEN <<>>
  ELSE LET m == CHOOSE k \in K : \A j \in K \ {k} : UnitsLess(j[1], k[1])
       IN Append(SortKeyed(K \ {m}), m[2])

SortStrings(S) == SortKeyed({<<PathUnits(p), p>> : p \in S})

Range(f) == {f[i] : i \in DOMAIN f}

\* array.slice(start, end) of JavaScript: negative indices count from the
\* end, both are clamped to the array.
Slice(arr, start, end) ==
  LET n == Len(arr)
      clamp(i) == IF i < 0 THEN (IF n + i < 0 THEN 0 ELSE n + i)
                  ELSE (IF i > n THEN n ELSE i)
      from == clamp(start)
      to == clamp(end)
  IN IF from >= to THEN <<>> ELSE SubSeq(arr, from + 1, to)

\* path.join, after the root directory: "" and "." segments vanish and ".."
\* removes the segment before it (a ".." with nothing before it stays).
RECURSIVE Normalize(_, _)
Normalize(done, rest) ==
  IF rest = <<>> THEN done
  ELSE LET s == rest[1] IN
       IF s = "" \/ s = "." THEN Normalize(done, Tail(rest))
       ELSE IF s = ".." /\ done # <<>> /\ done[Len(done)] # ".."
            THEN Normalize(SubSeq(done, 1, Len(done) - 1), Tail(rest))
       ELSE Normalize(Append(done, s), Tail(rest))

join(path) == Normalize(<<>>, path)

\* ------------------------------------------------------------ state

VARIABLES
  dirs,     \* the directories under the storage root, as normalized paths
  files,    \* the regular files under the storage root: path -> content
  reqs,     \* the POST requests, by arrival number: body, position, response
  last,     \* the latest GET request and its response
  call,     \* the latest direct call of a FilesystemStorage method
  history,  \* per path, what the direct calls that resolved did to it
  cli,      \* the fetch-ui process: its arguments and what it has done
  tx,       \* the InstallTransaction of the Installation Orchestrator
  resolution \* one resolve(root) of the Dependency Resolver, with its fetches

vars == <<dirs, files, reqs, last, call, history, cli, tx, resolution>>

\* What the registry's request handlers leave alone.
beyondRegistry == <<call, history, cli, tx, resolution>>

\* What the direct calls of FilesystemStorage leave alone.
beyondStorage == <<reqs, last, cli, tx, resolution>>

\* What the fetch-ui command line leaves alone.
beyondCli == <<dirs, files, reqs, last, call, history, tx, resolution>>

\* What an install leaves alone (dirs and files are the target project).
beyondInstall == <<dirs, reqs, last, call, history, cli, resolution>>

\* What a resolve leaves alone.
beyondResolve == <<dirs, files, reqs, last, call, history, cli, tx>>

\* ------------------------------------------------------------ file system

IsPrefix(p, q) == Len(p) <= Len(q) /\ SubSeq(q, 1, Len(p)) = p

ProperPrefixes(p) == {SubSeq(p, 1, n) : n \in 0..(Len(p) - 1)}

Result(err, value) == [err |-> err, value |-> value]

\* fs.readFile(fullPath)
readFile(p) ==
  IF p \in DOMAIN files THEN Result("OK", files[p])
  ELSE IF p \in dirs THEN Result("EISDIR", Absent)
  ELSE IF \E q \in ProperPrefixes(p) : q \in DOMAIN files THEN Result("ENOTDIR", Absent)
  ELSE Result("ENOENT", Absent)

\* fs.readdir(fullPath, {recursive: true}): every file and every directory
\* below fullPath, each as its path relative to fullPath.
readdir(p) ==
  IF p \in dirs
  THEN Result("OK", {SubSeq(q, Len(p) + 1, Len(q)) :
                       q \in {e \in dirs \cup DOMAIN files : IsPrefix(p, e) /\ e # p}})
  ELSE IF \E q \in ProperPrefixes(p) \cup {p} : q \in DOMAIN files
  THEN Result("ENOTDIR", Absent)
  ELSE Result("ENOENT", Absent)

\* fs.mkdir(dir, {recursive: true}): the directories it leaves, or the error.
mkdir(p) ==
  IF p \in DOMAIN files THEN Result("EEXIST", dirs)
  ELSE IF \E q \in ProperPrefixes(p) : q \in DOMAIN files THEN Result("ENOTDIR", dirs)
  ELSE Result("OK", dirs \cup ProperPrefixes(p) \cup {p})

\* fs.writeFile(fullPath, content): the files it leaves, or the error.
writeFile(p, content) ==
  LET parent == join(p \o <<"..">>) IN
  IF p \in dirs THEN Result("EISDIR", files)
  ELSE IF parent \in DOMAIN files \/ \E q \in ProperPrefixes(parent) : q \in DOMAIN files
  THEN Result("ENOTDIR", files)
  ELSE IF parent \notin dirs THEN Result("ENOENT", files)
  ELSE Result("OK", [q \in DOMAIN files \cup {p} |-> IF q = p THEN content ELSE files[q]])

\* An unlink that resolves and leaves the file where it is.
unlinkKeepsFile(p) ==
  IF p \in DOMAIN files THEN Result("OK", files)
  ELSE IF p \in dirs THEN Result("EISDIR", files)
  ELSE Result("ENOENT", files)

\* fs.unlink(fullPath): the files it leaves, or the error.  The file is
\* removed, its directory stays.
unlink(p) ==
  IF p \in DOMAIN files THEN Result("OK", [q \in DOMAIN files \ {p} |-> files[q]])
  ELSE IF p \in dirs THEN Result("EISDIR", files)
  ELSE IF \E q \in ProperPrefixes(p) : q \in DOMAIN files THEN Result("ENOTDIR", files)
  ELSE Result("ENOENT", files)

\* ------------------------------------------------------------ FilesystemStorage

\* FilesystemStorage.read(path)
StorageRead(path) == readFile(join(path))

\* FilesystemStorage.list(prefix): the entries readdir finds below the
\* prefix, each joined to the prefix again and taken relative to the root; an
\* ENOENT is an empty list, any other error is thrown.  The order of readdir
\* is the file system's; the sorted one stands for it.
StorageList(prefix) ==
  LET r == readdir(join(prefix)) IN
  IF r.err = "OK"
  THEN Result("OK", SortStrings({join(prefix \o entry) : entry \in r.value}))
  ELSE IF r.err = "ENOENT" THEN Result("OK", <<>>)
  ELSE Result(r.err, <<>>)

\* FilesystemStorage.delete(path)
StorageDelete(path) == unlink(join(path))

\* No direct call yet.
NoCall == [op |-> "none", pc |-> "done"]

\* A direct call that has settled: resolved (err = "OK") or rejected.
Settled(op, path, result) ==
  [op |-> op, path |-> path, pc |-> "done", err |-> result.err, value |-> result.value]

\* A write or delete that resolved, in the history of its path: the content
\* the path was last given, whether a delete followed, and whether the path
\* had a history before.
Recorded(p, content, deleted) ==
  [q \in DOMAIN history \cup {p} |->
     IF q = p
     THEN [content |-> content, deleted |-> deleted, again |-> p \in DOMAIN history]
     ELSE history[q]]

\* await storage.write(path, content), up to its second await:
\* mkdir(join(fullPath, '..'), {recursive: true}).  The caller awaits every
\* call, so a call starts when the one before has settled.
WriteCall(path, content) ==
  /\ call.pc = "done"
  /\ LET made == mkdir(join(path \o <<"..">>))
     IN /\ dirs' = made.value
        /\ call' = IF made.err = "OK"
                   THEN [op |-> "write", path |-> path, content |-> content,
                         pc |-> "writeFile"]
                   ELSE Settled("write", path, Result(made.err, Absent))
  /\ UNCHANGED <<files, history, beyondStorage>>

\* storage.write, from its second await: writeFile(fullPath, content).
WriteCallWriteFile ==
  /\ call.pc = "writeFile"
  /\ LET stored == writeFile(join(call.path), call.content)
     IN /\ files' = stored.value
        /\ call' = Settled("write", call.path, Result(stored.err, Absent))
        /\ history' = IF stored.err = "OK"
                      THEN Recorded(join(call.path), call.content, FALSE)
                      ELSE history
  /\ UNCHANGED <<dirs, beyondStorage>>

\* await storage.delete(path)
DeleteCall(path) ==
  /\ call.pc = "done"
  /\ LET removed == StorageDelete(path)
         p == join(path)
     IN /\ files' = removed.value
        /\ call' = Settled("delete", path, Result(removed.err, Absent))
        /\ history' = IF removed.err = "OK" /\ p \in DOMAIN history
                      THEN Recorded(p, history[p].content, TRUE)
                      ELSE history
  /\ UNCHANGED <<dirs, beyondStorage>>

\* await storage.read(path)
ReadCall(path) ==
  /\ call.pc = "done"
  /\ call' = Settled("read", path, StorageRead(path))
  /\ UNCHANGED <<dirs, files, history, beyondStorage>>

\* await storage.list(prefix)
ListCall(prefix) ==
  /\ call.pc = "done"
  /\ call' = Settled("list", prefix, StorageList(prefix))
  /\ UNCHANGED <<dirs, files, history, beyondStorage>>

\* The paths of the direct calls: a nested file, a file where that file's
\* directory would be, a file in the root and a second spelling of it.
StoragePaths ==
  {<<"components", "a", "b">>, <<"components", "a">>, <<"b">>,
   <<"components", "..", "b">>}

\* The prefixes listed: a directory of directories, a directory of files, a
\* file, and a name nothing is stored under.
StoragePrefixes ==
  {<<"components">>, <<"components", "a">>, <<"b">>, <<"a">>}

Contents == {"first", "second"}

\* An empty root directory (mkdtemp), no call yet.
StorageInit ==
  /\ dirs = {<<>>}
  /\ files = <<>>
  /\ reqs = <<>>
  /\ last = [route |-> "none", response |-> [status |-> 0]]
  /\ call = NoCall
  /\ history = <<>>
  /\ cli = [pc |-> "start"]
  /\ tx = [pc |-> "idle"]
  /\ resolution = [pc |-> "idle"]

StorageNext ==
  \/ \E path \in StoragePaths, content \in Contents : WriteCall(path, content)
  \/ WriteCallWriteFile
  \/ \E path \in StoragePaths : DeleteCall(path)
  \/ \E path \in StoragePaths : ReadCall(path)
  \/ \E prefix \in StoragePrefixes : ListCall(prefix)

StorageSpec == StorageInit /\ [][StorageNext]_vars

\* ------------------------------------------------------------ the command line

\* Arguments after "node fetch-ui" in one command line.
MaxArgs == 4

\* The words of a command line.
Tokens ==
  {"add", "button", "--registry", "git", "--version", "-v", "1.0.0", "--force",
   "--help", "--dry-run"}

\* maybeOption of commander: a word that starts with '-' and is longer
\* than one character.
maybeOption(arg) ==
  arg \in {"--registry", "--version", "-v", "--force", "--help", "--dry-run"}

\* The options a command knows, by flag: the key its value is stored under
\* and whether the flag takes a value.  The program knows the version flag
\* that .version(packageJson.version) registers; `add` knows its three.
programOptions ==
  [flag \in {"--version"} |-> [name |-> "version", required |-> FALSE]]

addOptions ==
  [flag \in {"--registry", "-v", "--force"} |->
     CASE flag = "--registry" -> [name |-> "registry", required |-> TRUE]
       [] flag = "-v"         -> [name |-> "version", required |-> TRUE]
       [] flag = "--force"    -> [name |-> "force", required |-> FALSE]]

\* Command.parseOptions(argv) of commander: known options are taken wherever
\* they stand; another word is an operand until the first unknown option
\* and unknown from then on.  It stops at the program's version flag, whose
\* listener writes the version and exits, and at a flag whose value is
\* missing.
RECURSIVE parseOptions(_, _, _, _, _, _)
parseOptions(known, args, operands, unknown, toUnknown, opts) ==
  IF args = <<>>
  THEN [stop |-> "none", operands |-> operands, unknown |-> unknown, opts |-> opts]
  ELSE LET arg == Head(args) IN
       IF arg \in DOMAIN known
       THEN IF known = programOptions
            THEN [stop |-> "version", operands |-> operands, unknown |-> unknown,
                  opts |-> opts]
            ELSE IF ~known[arg].required
            THEN parseOptions(known, Tail(args), operands, unknown, toUnknown,
                              (known[arg].name :> "true") @@ opts)
            ELSE IF Tail(args) = <<>>
            THEN [stop |-> "optionMissingArgument", operands |-> operands,
                  unknown |-> unknown, opts |-> opts]
            ELSE parseOptions(known, Tail(Tail(args)), operands, unknown, toUnknown,
                              (known[arg].name :> args[2]) @@ opts)
       ELSE IF toUnknown \/ maybeOption(arg)
       THEN parseOptions(known, Tail(args), operands, Append(unknown, arg), TRUE, opts)
       ELSE parseOptions(known, Tail(args), Append(operands, arg), unknown, FALSE, opts)

\* The fetch-ui process before cli.run.
NotStarted == [pc |-> "start"]

\* The process when it has ended: what it wrote (the version, the help, a
\* commander error, or nothing), its exit code, the lines given to
\* logger.info and the calls made on a ComponentManager.  Nothing was given
\* to logger.error.
Ended(argv, out, exit, logs, calls) ==
  [pc |-> "ended", argv |-> argv, out |-> out, exit |-> exit, logs |-> logs,
   calls |-> calls, errors |-> <<>>]

\* The values the tests give to handleError: new Error("Test error") and
\* the string "Unknown error".
TestError == [instanceofError |-> TRUE, message |-> "Test error"]
UnknownError == [instanceofError |-> FALSE, value |-> "Unknown error"]

\* CLI.handleError(error): logger.error of the message of an Error, of
\* 'An unknown error occurred' for another value, then process.exit(1).
handleError(argv, error) ==
  [Ended(argv, "none", 1, <<>>, <<>>) EXCEPT
     !.errors = <<IF error.instanceofError THEN error.message
                  ELSE "An unknown error occurred">>]

\* logger.info(`Adding component ${component} from ${options.registry} registry`)
AddingLine(component, registry) ==
  <<"Adding component ", component, " from ", registry, " registry">>

\* The action of the add command: the log line, and the TODO.
addAction(argv, component, options) ==
  Ended(argv, "none", 0, <<AddingLine(component, options["registry"])>>, <<>>)

\* Command._parseCommand of the add command, with the operands and unknown
\* words the program passes down: its options (registry defaults to
\* "local"), the help flag, unknown options, the missing <component>, and
\* the action.
addCommand(argv, operands, unknown) ==
  LET parsed == parseOptions(addOptions, unknown, <<>>, <<>>, FALSE,
                             ("registry" :> "local"))
      all == operands \o parsed.operands
  IN IF parsed.stop # "none" THEN Ended(argv, parsed.stop, 1, <<>>, <<>>)
     ELSE IF "--help" \in Range(parsed.unknown) THEN Ended(argv, "help", 0, <<>>, <<>>)
     ELSE IF parsed.unknown # <<>> THEN Ended(argv, "unknownOption", 1, <<>>, <<>>)
     ELSE IF all = <<>> THEN Ended(argv, "missingArgument", 1, <<>>, <<>>)
     ELSE addAction(argv, all[1], parsed.opts)

\* CLI.run(args), args = ["node", "fetch-ui"] followed by argv:
\* program.parseAsync.  Commander reports its own errors by writing them and
\* calling process.exit, so nothing reaches the catch of run.
run(argv) ==
  LET parsed == parseOptions(programOptions, argv, <<>>, <<>>, FALSE, <<>>)
  IN IF parsed.stop = "version" THEN Ended(argv, "version", 0, <<>>, <<>>)
     ELSE IF parsed.operands # <<>> /\ parsed.operands[1] = "add"
     THEN addCommand(argv, Tail(parsed.operands), parsed.unknown)
     ELSE IF parsed.operands = <<>> /\ parsed.unknown = <<>>
     THEN Ended(argv, "help", 1, <<>>, <<>>)
     ELSE IF "--help" \in Range(parsed.unknown) THEN Ended(argv, "help", 0, <<>>, <<>>)
     ELSE IF parsed.operands # <<>> THEN Ended(argv, "unknownCommand", 1, <<>>, <<>>)
     ELSE Ended(argv, "unknownOption", 1, <<>>, <<>>)

\* main(args): new CLI(), await cli.run(args).
Main(argv) ==
  /\ cli = NotStarted
  /\ cli' = run(argv)
  /\ UNCHANGED beyondCli

\* new CLI().handleError(error), the public method called by itself.
HandleError(error) ==
  /\ cli = NotStarted
  /\ cli' = handleError(<<>>, error)
  /\ UNCHANGED beyondCli

\* The command lines of at most MaxArgs words.
RECURSIVE Argvs(_)
Argvs(n) ==
  IF n = 0 THEN {<<>>}
  ELSE LET shorter == Argvs(n - 1)
       IN shorter \cup {Append(a, t) : a \in {b \in shorter : Len(b) = n - 1},
                                        t \in Tokens}

\* An empty project, the process not started.
CliInit ==
  /\ dirs = {<<>>}
  /\ files = <<>>
  /\ reqs = <<>>
  /\ last = [route |-> "none", response |-> [status |-> 0]]
  /\ call = NoCall
  /\ history = <<>>
  /\ cli = NotStarted
  /\ tx = [pc |-> "idle"]
  /\ resolution = [pc |-> "idle"]

CliNext ==
  \/ \E argv \in Argvs(MaxArgs) : Main(argv)
  \/ \E error \in {TestError, UnknownError} : HandleError(error)

CliSpec == CliInit /\ [][CliNext]_vars

\* ------------------------------------------------------------ the Installation Orchestrator

\* Files in one install transaction.
MaxFiles == 3

\* fs.rename(oldPath, newPath): the files it leaves, or the error.  The
\* file at newPath, if any, is replaced in one step.
rename(oldPath, newPath) ==
  IF oldPath \notin DOMAIN files THEN Result("ENOENT", files)
  ELSE IF newPath \in dirs THEN Result("EISDIR", files)
  ELSE Result("OK", [q \in (DOMAIN files \ {oldPath}) \cup {newPath} |->
                       IF q = newPath THEN files[oldPath] ELSE files[q]])

\* The names of the output files and of the temporary files beside them.
TargetNames == <<"t1", "t2", "t3", "t4", "t5">>
TempNames == <<".t1.tmp", ".t2.tmp", ".t3.tmp", ".t4.tmp", ".t5.tmp">>

\* StagedFile {targetPath, content, tempPath} of the i-th output file.
StagedFile(i) ==
  [targetPath |-> <<TargetNames[i]>>, content |-> "new", tempPath |-> <<TempNames[i]>>]

\* No install yet.
NoTransaction == [pc |-> "idle"]

\* The target paths of the first n output files that hold a file.
existing(n) == {StagedFile(i).targetPath : i \in {j \in 1..n : StagedFile(j).targetPath \in DOMAIN files}}

\* A check that reports the first conflicting path it meets and stops.
conflictCheckFirstOnly(n, force) ==
  IF force \/ existing(n) = {} THEN {}
  ELSE {StagedFile(CHOOSE i \in 1..n :
                     /\ StagedFile(i).targetPath \in DOMAIN files
                     /\ \A j \in 1..(i - 1) : StagedFile(j).targetPath \notin DOMAIN files).targetPath}

\* Step 2: the target paths that hold a file, unless force: the paths
\* FileConflict lists.
conflictCheck(n, force) == IF force THEN {} ELSE existing(n)

\* A rollback that removes every promoted file, whatever was there before.
restoreByDeleting(targetPath, prior) == unlink(targetPath).value

\* Rollback of one promoted file: the prior content is written back, or the
\* file is deleted if there was none.
restore(targetPath, prior) ==
  IF prior.existed THEN writeFile(targetPath, prior.content).value
  ELSE unlink(targetPath).value

\* install(..., {force, targetDir}) begins: the transaction is created.  `pre`
\* remembers the files of the target as they were.
InstallStart(n, force) ==
  /\ tx.pc = "idle"
  /\ tx' = [pc |-> "stage", n |-> n, force |-> force, staged |-> 0, promoted |-> 0,
            temps |-> {}, prior |-> <<>>, error |-> [kind |-> "none"], pre |-> files]
  /\ UNCHANGED <<files, beyondInstall>>

\* Step 1: the next output file is written to its temporary path.
Stage ==
  /\ tx.pc = "stage"
  /\ tx.staged < tx.n
  /\ LET f == StagedFile(tx.staged + 1) IN
     /\ files' = writeFile(f.tempPath, f.content).value
     /\ tx' = [tx EXCEPT !.staged = @ + 1, !.temps = @ \cup {tx.staged + 1}]
  /\ UNCHANGED beyondInstall

\* Step 2: every file is staged; the conflict check, before any promotion.
Check ==
  /\ tx.pc = "stage"
  /\ tx.staged = tx.n
  /\ LET conflicting == conflictCheck(tx.n, tx.force) IN
     tx' = IF conflicting # {}
           THEN [tx EXCEPT !.pc = "rollback",
                           !.error = [kind |-> "FileConflict", paths |-> conflicting]]
           ELSE [tx EXCEPT !.pc = "promote"]
  /\ UNCHANGED <<files, beyondInstall>>

\* Step 3: the next staged file is renamed into place, after what its
\* target held is remembered; or the rename fails.
Promote(fails) ==
  /\ tx.pc = "promote"
  /\ tx.promoted < tx.n
  /\ LET f == StagedFile(tx.promoted + 1)
         renamed == rename(f.tempPath, f.targetPath)
         prior == IF f.targetPath \in DOMAIN files
                  THEN [existed |-> TRUE, content |-> files[f.targetPath]]
                  ELSE [existed |-> FALSE]
     IN IF fails \/ renamed.err # "OK"
        THEN /\ tx' = [tx EXCEPT !.pc = "rollback",
                                  !.error = [kind |-> "PromotionFailure",
                                             path |-> f.targetPath,
                                             index |-> tx.promoted + 1]]
             /\ UNCHANGED files
        ELSE /\ files' = renamed.value
             /\ tx' = [tx EXCEPT !.promoted = @ + 1, !.prior = Append(@, prior),
                                  !.temps = @ \ {tx.promoted + 1}]
  /\ UNCHANGED beyondInstall

\* Step 3 is through: the transaction is committed.
Commit ==
  /\ tx.pc = "promote"
  /\ tx.promoted = tx.n
  /\ tx' = [tx EXCEPT !.pc = "committed"]
  /\ UNCHANGED <<files, beyondInstall>>

\* Rollback: the promoted file promoted last is put back.
RollbackPromoted ==
  /\ tx.pc = "rollback"
  /\ tx.promoted > 0
  /\ files' = restore(StagedFile(tx.promoted).targetPath, tx.prior[tx.promoted])
  /\ tx' = [tx EXCEPT !.promoted = @ - 1, !.prior = SubSeq(@, 1, Len(@) - 1)]
  /\ UNCHANGED beyondInstall

\* Rollback: a temporary file that was not promoted is deleted.
RollbackStaged ==
  /\ tx.pc = "rollback"
  /\ tx.promoted = 0
  /\ tx.temps # {}
  /\ LET i == CHOOSE k \in tx.temps : \A j \in tx.temps : k <= j IN
     /\ files' = unlink(StagedFile(i).tempPath).value
     /\ tx' = [tx EXCEPT !.temps = @ \ {i}]
  /\ UNCHANGED beyondInstall

\* Rollback is through: install fails with the error of the transaction.
RolledBack ==
  /\ tx.pc = "rollback"
  /\ tx.promoted = 0
  /\ tx.temps = {}
  /\ tx' = [tx EXCEPT !.pc = "rolledBack"]
  /\ UNCHANGED <<files, beyondInstall>>

\* The target projects: any of the target paths may hold a file already.
Projects ==
  {[p \in {<<TargetNames[i]>> : i \in S} |-> "old"] : S \in SUBSET (1..MaxFiles)}

InstallInit ==
  /\ dirs = {<<>>}
  /\ files \in Projects
  /\ reqs = <<>>
  /\ last = [route |-> "none", response |-> [status |-> 0]]
  /\ call = NoCall
  /\ history = <<>>
  /\ cli = [pc |-> "start"]
  /\ tx = NoTransaction
  /\ resolution = [pc |-> "idle"]

InstallNext ==
  \/ \E n \in 1..MaxFiles, force \in BOOLEAN : InstallStart(n, force)
  \/ Stage
  \/ Check
  \/ \E fails \in BOOLEAN : Promote(fails)
  \/ Commit
  \/ RollbackPromoted
  \/ RollbackStaged
  \/ RolledBack

InstallSpec == InstallInit /\ [][InstallNext]_vars

\* A cancellation that drops the transaction where it stands.
cancelledAbandons(t) ==
  [t EXCEPT !.pc = "rolledBack", !.error = [kind |-> "Cancelled", during |-> t.pc]]

\* The transaction is cancelled: it takes the rollback path, as after a
\* failed promotion.
cancelled(t) ==
  [t EXCEPT !.pc = "rollback", !.error = [kind |-> "Cancelled", during |-> t.pc]]

\* The pipeline is cancelled at a suspension point of the install: between
\* two file operations of staging or of promotion.
Cancel ==
  /\ tx.pc \in {"stage", "promote"}
  /\ tx' = cancelled(tx)
  /\ UNCHANGED <<files, beyondInstall>>

\* An install that may be cancelled.
CancelNext == InstallNext \/ Cancel

CancelSpec == InstallInit /\ [][CancelNext]_vars

\* ------------------------------------------------------------ the Dependency Resolver

\* Network failures in one resolve.
MaxFailures == 3

\* Attempts of one registry fetch before its error is surfaced.
MaxAttempts == 3

\* ComponentRef {name, version}
Ref(name, version) == [name |-> name, version |-> version]

\* A package requirement: lib@^major.minor
Caret(lib, major, minor) == [lib |-> lib, major |-> major, minor |-> minor]

\* ComponentManifest: the component dependencies and the package
\* requirements, in the order they are declared.
Manifest(deps, packages) == [deps |-> deps, packages |-> packages, valid |-> TRUE]

\* A payload that fails schema validation.
InvalidPayload == [deps |-> <<>>, packages |-> <<>>, valid |-> FALSE]

\* The manifest sets: what the registry holds, by ComponentRef.
\*   cycle:    A -> B -> C -> A
\*   diamond:  A -> B, C; B -> D@1; C -> D@2; B and C require lib ^1.2 and ^1.3
\*   hidden:   A -> B, C; B -> C; C -> B
\*   broken:   A -> X, E; X is not published, the manifest of E is invalid
\*   disjoint: A -> B, C; B and C require lib ^1.0 and ^2.0
ManifestSets ==
  [id \in {"cycle", "diamond", "hidden", "broken", "disjoint"} |->
     CASE id = "cycle" ->
            (Ref("A", "1") :> Manifest(<<Ref("B", "1")>>, <<>>))
            @@ (Ref("B", "1") :> Manifest(<<Ref("C", "1")>>, <<>>))
            @@ (Ref("C", "1") :> Manifest(<<Ref("A", "1")>>, <<>>))
       [] id = "diamond" ->
            (Ref("A", "1") :> Manifest(<<Ref("B", "1"), Ref("C", "1")>>, <<>>))
            @@ (Ref("B", "1") :> Manifest(<<Ref("D", "1")>>, <<Caret("lib", 1, 2)>>))
            @@ (Ref("C", "1") :> Manifest(<<Ref("D", "2")>>, <<Caret("lib", 1, 3)>>))
            @@ (Ref("D", "1") :> Manifest(<<>>, <<>>))
            @@ (Ref("D", "2") :> Manifest(<<>>, <<>>))
       [] id = "hidden" ->
            (Ref("A", "1") :> Manifest(<<Ref("B", "1"), Ref("C", "1")>>, <<>>))
            @@ (Ref("B", "1") :> Manifest(<<Ref("C", "1")>>, <<>>))
            @@ (Ref("C", "1") :> Manifest(<<Ref("B", "1")>>, <<>>))
       [] id = "broken" ->
            (Ref("A", "1") :> Manifest(<<Ref("X", "1"), Ref("E", "1")>>, <<>>))
            @@ (Ref("E", "1") :> InvalidPayload)
       [] id = "disjoint" ->
            (Ref("A", "1") :> Manifest(<<Ref("B", "1"), Ref("C", "1")>>, <<>>))
            @@ (Ref("B", "1") :> Manifest(<<>>, <<Caret("lib", 1, 0)>>))
            @@ (Ref("C", "1") :> Manifest(<<>>, <<Caret("lib", 2, 0)>>))]

\* The root of every resolve.
Root == Ref("A", "1")

NoError == [kind |-> "none"]

\* A node of the traversal: its ref, the names on the path from the root
\* to it (the visiting set of its path, in order), and whether its
\* bookkeeping is done.
Node(ref, path) == [ref |-> ref, path |-> path, applied |-> FALSE]

\* The bookkeeping of a resolve when it begins: the root is queued and
\* chosen.
Begin(root) ==
  [queue |-> <<Node(root, <<root.name>>)>>,
   resolved |-> (root.name :> root),
   order |-> <<root.name>>,
   conflicts |-> <<>>,
   packages |-> <<>>,
   merged |-> {},
   error |-> NoError]

\* One package requirement of component `name` is merged: the first
\* requirement of a lib is taken; a later one with the same major raises
\* the minor; one with another major is disjoint.
mergePackage(b, name, req) ==
  IF req.lib \notin DOMAIN b.packages
  THEN [b EXCEPT !.packages =
          [l \in DOMAIN b.packages \cup {req.lib} |->
             IF l = req.lib
             THEN [major |-> req.major, minor |-> req.minor, by |-> name]
             ELSE b.packages[l]]]
  ELSE LET have == b.packages[req.lib] IN
       IF have.major # req.major
       THEN [b EXCEPT !.error = [kind |-> "IncompatiblePackageVersions",
                                 lib |-> req.lib, first |-> have.by, second |-> name]]
       ELSE IF req.minor > have.minor
       THEN [b EXCEPT !.packages[req.lib].minor = req.minor]
       ELSE b

RECURSIVE mergePackages(_, _, _)
mergePackages(b, name, requirements) ==
  IF requirements = <<>> \/ b.error.kind # "none" THEN b
  ELSE mergePackages(mergePackage(b, name, Head(requirements)), name, Tail(requirements))

\* The position of a name on a path.
IndexOf(path, name) == CHOOSE k \in 1..Len(path) : path[k] = name

\* A cycle check that looks at the node itself only.
onPathSelfOnly(path, name) == path[Len(path)] = name

\* Cycle detection: the name is in the visiting set of the path.
onPath(path, name) == name \in Range(path)

\* One declared dependency of a node: a name on the node's path is a cycle;
\* a name chosen before keeps its first ref, and a different version is
\* recorded as a conflict; a new name is chosen.  The chosen ref is queued
\* as a child of the node.
applyDependency(b, node, dep) ==
  IF onPath(node.path, dep.name)
  THEN [b EXCEPT !.error =
          [kind |-> "CyclicDependency",
           cycle |-> Append(SubSeq(node.path, IndexOf(node.path, dep.name),
                                   Len(node.path)), dep.name)]]
  ELSE IF dep.name \in DOMAIN b.resolved
  THEN LET chosen == b.resolved[dep.name]
           conflict == [name |-> dep.name, chosen |-> chosen.version,
                        rejected |-> dep.version]
       IN [b EXCEPT !.queue = Append(@, Node(chosen, Append(node.path, dep.name))),
                    !.conflicts = IF chosen.version = dep.version \/ conflict \in Range(@)
                                  THEN @ ELSE Append(@, conflict)]
  ELSE [b EXCEPT !.queue = Append(@, Node(dep, Append(node.path, dep.name))),
                 !.resolved = (dep.name :> dep) @@ @,
                 !.order = Append(@, dep.name)]

RECURSIVE applyDependencies(_, _, _)
applyDependencies(b, node, deps) ==
  IF deps = <<>> \/ b.error.kind # "none" THEN b
  ELSE applyDependencies(applyDependency(b, node, Head(deps)), node, Tail(deps))

\* The bookkeeping of the i-th node of the queue, with its manifest: the
\* packages of a component are merged the first time it is met, then its
\* dependencies are applied in the order they are declared.
applyNode(b, i, manifest) ==
  LET node == b.queue[i]
      name == node.ref.name
      merged == IF name \in b.merged THEN b
                ELSE mergePackages([b EXCEPT !.merged = @ \cup {name}], name,
                                   manifest.packages)
      done == applyDependencies(merged, node, manifest.deps)
  IN [done EXCEPT !.queue[i].applied = TRUE]

\* A fetch that has made no attempt yet.
Pending == [status |-> "pending", log |-> <<>>]

\* What the registry answers for a ref.
answer(set, ref) ==
  IF ref \notin DOMAIN set THEN "NotFound"
  ELSE IF ~set[ref].valid THEN "InvalidManifest"
  ELSE "ok"

\* A retry policy that retries whatever failed.
retriesEverything(outcome) == outcome # "ok"

\* The failures that are retried.
retriable(outcome) == outcome \in {"Unreachable", "Timeout"}

\* Bookkeeping in the order the fetches complete.
readyInCompletionOrder(i) ==
  /\ ~resolution.book.queue[i].applied
  /\ resolution.fetch[resolution.book.queue[i].ref].status # "pending"

\* The node whose bookkeeping is next: the first of the queue that is not
\* applied, once its fetch has ended.
ready(i) ==
  /\ ~resolution.book.queue[i].applied
  /\ \A j \in 1..(i - 1) : resolution.book.queue[j].applied
  /\ resolution.fetch[resolution.book.queue[i].ref].status # "pending"

\* The fetches after a step of bookkeeping: one is issued for every queued
\* ref that has none.
issued(fetch, queue) ==
  [ref \in DOMAIN fetch \cup {queue[i].ref : i \in DOMAIN queue} |->
     IF ref \in DOMAIN fetch THEN fetch[ref] ELSE Pending]

\* resolve(root) begins on a manifest set.
Resolve(id) ==
  /\ resolution.pc = "idle"
  /\ resolution' = [pc |-> "running", set |-> id, book |-> Begin(Root),
                    fetch |-> (Root :> Pending), failures |-> 0, completed |-> <<>>]
  /\ UNCHANGED beyondResolve

\* One attempt of a pending fetch ends: with the registry's answer, or with
\* a network failure.  A retriable failure short of MaxAttempts leaves the
\* fetch pending for its next attempt; anything else ends it.
Attempt(ref, outcome) ==
  /\ resolution.pc = "running"
  /\ ref \in DOMAIN resolution.fetch
  /\ resolution.fetch[ref].status = "pending"
  /\ \/ outcome = answer(ManifestSets[resolution.set], ref)
     \/ outcome \in {"Unreachable", "Timeout"} /\ resolution.failures < MaxFailures
  /\ LET log == Append(resolution.fetch[ref].log, outcome)
         status == IF outcome = "ok" THEN "ok"
                   ELSE IF retriable(outcome) /\ Len(log) < MaxAttempts THEN "pending"
                   ELSE "failed"
     IN resolution' =
          [resolution EXCEPT
             !.fetch[ref] = [status |-> status, log |-> log],
             !.failures = IF outcome \in {"Unreachable", "Timeout"} THEN @ + 1 ELSE @,
             !.completed = IF status = "pending" THEN @ ELSE Append(@, ref)]
  /\ UNCHANGED beyondResolve

\* The bookkeeping of the next node, whose manifest has been fetched.
Apply(i) ==
  /\ resolution.pc = "running"
  /\ i \in DOMAIN resolution.book.queue
  /\ ready(i)
  /\ resolution.fetch[resolution.book.queue[i].ref].status = "ok"
  /\ LET b == applyNode(resolution.book, i,
                        ManifestSets[resolution.set][resolution.book.queue[i].ref])
     IN resolution' =
          [resolution EXCEPT
             !.book = b,
             !.fetch = IF b.error.kind = "none" THEN issued(@, b.queue) ELSE @,
             !.pc = IF b.error.kind = "none" THEN "running" ELSE "failed"]
  /\ UNCHANGED beyondResolve

\* The fetch of the next node has failed: its error is surfaced.
Surface(i) ==
  /\ resolution.pc = "running"
  /\ i \in DOMAIN resolution.book.queue
  /\ ready(i)
  /\ resolution.fetch[resolution.book.queue[i].ref].status = "failed"
  /\ LET f == resolution.fetch[resolution.book.queue[i].ref]
     IN resolution' =
          [resolution EXCEPT
             !.book.error = [kind |-> f.log[Len(f.log)], ref |-> resolution.book.queue[i].ref],
             !.pc = "failed"]
  /\ UNCHANGED beyondResolve

\* Every node is applied: the ResolutionResult is returned.
Finish ==
  /\ resolution.pc = "running"
  /\ \A i \in DOMAIN resolution.book.queue : resolution.book.queue[i].applied
  /\ resolution' = [resolution EXCEPT !.pc = "done"]
  /\ UNCHANGED beyondResolve

Refs == {Ref(n, v) : n \in {"A", "B", "C", "D", "E", "X"}, v \in {"1", "2"}}

Outcomes == {"ok", "NotFound", "InvalidManifest", "Unreachable", "Timeout"}

\* The positions of the queue.
Queued == IF resolution.pc = "idle" THEN {} ELSE DOMAIN resolution.book.queue

ResolveInit ==
  /\ dirs = {<<>>}
  /\ files = <<>>
  /\ reqs = <<>>
  /\ last = [route |-> "none", response |-> [status |-> 0]]
  /\ call = NoCall
  /\ history = <<>>
  /\ cli = [pc |-> "start"]
  /\ tx = [pc |-> "idle"]
  /\ resolution = [pc |-> "idle"]

ResolveNext ==
  \/ \E id \in DOMAIN ManifestSets : Resolve(id)
  \/ \E ref \in Refs, outcome \in Outcomes : Attempt(ref, outcome)
  \/ \E i \in Queued : Apply(i)
  \/ \E i \in Queued : Surface(i)
  \/ Finish

ResolveSpec == ResolveInit /\ [][ResolveNext]_vars

\* The scheduler runs every fetch and every step of bookkeeping that can
\* run.
ResolveFairSpec == ResolveSpec /\ WF_vars(ResolveNext)

\* ------------------------------------------------------------ schemas and errors

\* ComponentSchema.parse(data): metadata.name and metadata.version must be
\* strings and files an array; the optional keys may be missing.  A JSON
\* object is a record, a missing key is a key outside its domain.  The
\* parsed value keeps the keys the schema names and drops every other key;
\* the bodies below carry no other key, so it is the data itself.
ComponentSchemaParse(data) ==
  IF /\ "metadata" \in DOMAIN data
     /\ "files" \in DOMAIN data
     /\ "name" \in DOMAIN data.metadata
     /\ "version" \in DOMAIN data.metadata
  THEN Result("OK", data)
  ELSE Result("ZodError", data)

\* Buffer.from(JSON.stringify(component)) and JSON.parse(buffer.toString())
JSONstringify(component) == [json |-> component]
JSONparse(buffer) == buffer.json

\* The error ComponentSchema.parse throws; message stands for its issue list.
ZodError == [type |-> "ZodError", code |-> "ZodError", message |-> "issues"]
APIError(code, message) == [type |-> "APIError", code |-> code, message |-> message]
\* The error a file system call rejects with: a plain Error with a code.
FsError(code) == [type |-> "Error", code |-> code, message |-> code]

\* The property names an object literal inherits from Object.prototype:
\* looked up on { COMPONENT_NOT_FOUND: 404, ... } each gives a function (or
\* the prototype object), which is truthy, so `|| 500` does not apply.
ObjectPrototypeKeys ==
  {"constructor", "toString", "toLocaleString", "valueOf", "hasOwnProperty",
   "isPrototypeOf", "propertyIsEnumerable", "__proto__", "__defineGetter__",
   "__defineSetter__", "__lookupGetter__", "__lookupSetter__"}

\* res.status(status).json(body) with a status that is not a number: the
\* response cannot be written, the call throws ERR_HTTP_INVALID_STATUS_CODE
\* and errorHandler sends nothing.
Thrown(code) == [status |-> 0, body |-> [thrown |-> code]]

\* errorHandler without its ZodError branch: a validation error is answered
\* as any unknown error.
errorHandlerWithoutZod(error) ==
  IF error.type = "APIError"
  THEN IF error.code \in ObjectPrototypeKeys
       THEN Thrown("ERR_HTTP_INVALID_STATUS_CODE")
       ELSE [status |-> CASE error.code = "COMPONENT_NOT_FOUND" -> 404
                          [] error.code = "VERSION_NOT_FOUND" -> 404
                          [] error.code = "VERSION_CONFLICT" -> 409
                          [] OTHER -> 500,
             body |-> [code |-> error.code, message |-> error.message]]
  ELSE [status |-> 500,
        body |-> [code |-> "INTERNAL_ERROR", message |-> "Internal server error"]]

\* errorHandler(error, req, res, next): the response it sends.
errorHandler(error) ==
  IF error.type = "ZodError"
  THEN [status |-> 400,
        body |-> [code |-> "VALIDATION_ERROR", message |-> "Invalid request data",
                  details |-> error.message]]
  ELSE IF error.type = "APIError"
  THEN IF error.code \in ObjectPrototypeKeys
       THEN Thrown("ERR_HTTP_INVALID_STATUS_CODE")
       ELSE [status |-> CASE error.code = "COMPONENT_NOT_FOUND" -> 404
                          [] error.code = "VERSION_NOT_FOUND" -> 404
                          [] error.code = "VERSION_CONFLICT" -> 409
                          [] OTHER -> 500,
             body |-> [code |-> error.code, message |-> error.message]]
  ELSE [status |-> 500,
        body |-> [code |-> "INTERNAL_ERROR", message |-> "Internal server error"]]

\* res.json(body) and res.status(201).json(body)
Ok(body) == [status |-> 200, body |-> body]
Created(body) == [status |-> 201, body |-> body]

\* ------------------------------------------------------------ GET /components

\* parseInt(req.query.x as string): the number, or NaN.  A query value is
\* [given |-> FALSE], [given |-> TRUE, text |-> TRUE] for a non-numeric
\* string, or [given |-> TRUE, text |-> FALSE, n |-> i] for the decimal
\* string of i.
parseInt(q) ==
  IF q.given /\ ~q.text THEN [nan |-> FALSE, n |-> q.n] ELSE [nan |-> TRUE, n |-> 0]

\* x || d on a number: NaN and 0 are falsy.
OrDefault(x, d) == IF x.nan \/ x.n = 0 THEN d ELSE x.n

\* The path of a manifest below the storage root.
ComponentPath(name, version) == <<"components">> \o name \o version \o <<"component.json">>

\* The entry list() pushes for a component: name, latestVersion and
\* description from its metadata; a key whose value is undefined is as a
\* missing key.
ListEntry(component) ==
  LET metadata == component.metadata
      keys == {IF k = "version" THEN "latestVersion" ELSE k :
                 k \in DOMAIN metadata \cap {"name", "version", "description"}}
  IN [k \in keys |-> IF k = "latestVersion" THEN metadata.version ELSE metadata[k]]

\* ComponentListResponseSchema.parse(data): every entry has a name and a
\* latestVersion; total, page and pageSize are numbers.
ComponentListResponseSchemaParse(data) ==
  IF \A i \in 1..Len(data.components) :
       {"name", "latestVersion"} \subseteq DOMAIN data.components[i]
  THEN Result("OK", data)
  ELSE Result("ZodError", data)

\* The for loop of list(): for each entry of storage.list('components'), the
\* versions below `components/${dir}` and the manifest of the last one in
\* sorted order.  The first error ends the loop.
RECURSIVE ListLoop(_, _, _)
ListLoop(componentDirs, i, components) ==
  IF i > Len(componentDirs) THEN Result("OK", components)
  ELSE LET dir == componentDirs[i]
           versions == StorageList(<<"components">> \o dir)
       IN IF versions.err # "OK" THEN Result(versions.err, components)
          ELSE IF Len(versions.value) > 0
          THEN LET latestVersion == versions.value[Len(versions.value)]
                   componentData == StorageRead(ComponentPath(dir, latestVersion))
               IN IF componentData.err # "OK" THEN Result(componentData.err, components)
                  ELSE IF "metadata" \notin DOMAIN JSONparse(componentData.value)
                  THEN Result("TypeError", components)
                  ELSE ListLoop(componentDirs, i + 1,
                                Append(components, ListEntry(JSONparse(componentData.value))))
          ELSE ListLoop(componentDirs, i + 1, components)

DefaultPage == 1
DefaultPageSize == 10

\* ComponentsController.list
list(query) ==
  LET page == OrDefault(parseInt(query.page), DefaultPage)
      pageSize == OrDefault(parseInt(query.pageSize), DefaultPageSize)
      componentDirs == StorageList(<<"components">>)
  IN IF componentDirs.err # "OK" THEN errorHandler(FsError(componentDirs.err))
     ELSE LET components == ListLoop(componentDirs.value, 1, <<>>)
              start == (page - 1) * pageSize
          IN IF components.err # "OK" THEN errorHandler(FsError(components.err))
             ELSE LET response == ComponentListResponseSchemaParse(
                                    [components |-> Slice(components.value, start,
                                                          start + pageSize),
                                     total |-> Len(components.value),
                                     page |-> page,
                                     pageSize |-> pageSize])
                  IN IF response.err # "OK" THEN errorHandler(ZodError)
                     ELSE Ok(response.value)

\* ------------------------------------------------------------ GET /components/:name

\* new Date().toISOString()
Now == "now"

\* ComponentsController.getDetails: sort() orders the list in place and
\* pop() takes its last entry out of it.
getDetails(name) ==
  LET versions == StorageList(<<"components">> \o name) IN
  IF versions.err # "OK" THEN errorHandler(FsError(versions.err))
  ELSE IF Len(versions.value) = 0
  THEN errorHandler(APIError("COMPONENT_NOT_FOUND", "Component not found"))
  ELSE LET n == Len(versions.value)
           latestVersion == versions.value[n]
           rest == SubSeq(versions.value, 1, n - 1)
           componentData == StorageRead(ComponentPath(name, latestVersion))
       IN IF componentData.err # "OK" THEN errorHandler(FsError(componentData.err))
          ELSE LET component == ComponentSchemaParse(JSONparse(componentData.value))
               IN IF component.err # "OK" THEN errorHandler(ZodError)
                  ELSE Ok([component |-> component.value,
                           versions |-> [i \in 1..Len(rest) |->
                                           [version |-> rest[i],
                                            createdAt |-> Now,
                                            updatedAt |-> Now]]])

\* ------------------------------------------------------------ GET /components/:name/versions/:version

\* getVersion with `JSON.parse(...) as Component` in place of
\* ComponentSchema.parse, as list() reads a manifest.
getVersionUnparsed(name, version) ==
  LET componentData == StorageRead(ComponentPath(name, version)) IN
  IF componentData.err = "ENOENT"
  THEN errorHandler(APIError("VERSION_NOT_FOUND", "Version not found"))
  ELSE IF componentData.err # "OK" THEN errorHandler(FsError(componentData.err))
  ELSE Ok(JSONparse(componentData.value))

\* ComponentsController.getVersion
getVersion(name, version) ==
  LET componentData == StorageRead(ComponentPath(name, version)) IN
  IF componentData.err = "ENOENT"
  THEN errorHandler(APIError("VERSION_NOT_FOUND", "Version not found"))
  ELSE IF componentData.err # "OK" THEN errorHandler(FsError(componentData.err))
  ELSE LET component == ComponentSchemaParse(JSONparse(componentData.value))
       IN IF component.err # "OK" THEN errorHandler(ZodError)
          ELSE Ok(component.value)

\* ------------------------------------------------------------ POST /components

\* validateComponent(req, res, next): next() or next(error).
validateComponent(body) == ComponentSchemaParse(body)

\* The try/catch of create() with a catch that rethrows nothing: the
\* VERSION_CONFLICT thrown inside the try is swallowed with the ENOENT.
existenceCheckSwallowing(name, version) == Result("OK", Absent)

\* The try/catch of create() around the read of the manifest's path: what it
\* throws on.  A read that succeeds throws VERSION_CONFLICT, which the catch
\* rethrows as it rethrows every error whose code is not ENOENT.
existenceCheck(name, version) ==
  LET found == StorageRead(ComponentPath(name, version)) IN
  IF found.err = "OK"
  THEN Result("throw", APIError("VERSION_CONFLICT", "Version already exists"))
  ELSE IF found.err # "ENOENT" THEN Result("throw", FsError(found.err))
  ELSE Result("OK", Absent)

NoResponse == [status |-> 0]

\* `last` is the GET exchange answered on the present file tree: a step of a
\* POST forgets it, and one GET is recorded per state of the tree.  A GET
\* changes nothing a handler reads, so this leaves out no reachable state.
NoExchange == [route |-> "none", response |-> NoResponse]

\* A request that has been answered.
Answered(r, response) == [r EXCEPT !.pc = "done", !.response = response]

\* A POST arrives: validateComponent, then create() up to its first await:
\* ComponentSchema.parse(req.body) again, and the read of the manifest's path
\* is started.  `existed` remembers whether that path was a file then.
PostArrive(body) ==
  /\ Len(reqs) < MaxReqs
  /\ LET checked == validateComponent(body)
         component == ComponentSchemaParse(body)
         r == [body |-> body, pc |-> "read", wrote |-> FALSE, existed |-> FALSE,
               response |-> NoResponse]
     IN IF checked.err # "OK" \/ component.err # "OK"
        THEN reqs' = Append(reqs, Answered(r, errorHandler(ZodError)))
        ELSE LET path == join(ComponentPath(component.value.metadata.name,
                                            component.value.metadata.version))
             IN reqs' = Append(reqs, [r EXCEPT !.existed = path \in DOMAIN files])
  /\ last' = NoExchange
  /\ UNCHANGED <<dirs, files, beyondRegistry>>

\* The read of create() completes: the version conflict, another error, or
\* the call of storage.write, which awaits mkdir.
PostRead(i) ==
  /\ reqs[i].pc = "read"
  /\ LET component == ComponentSchemaParse(reqs[i].body).value
         thrown == existenceCheck(component.metadata.name, component.metadata.version)
     IN reqs' = [reqs EXCEPT ![i] =
                   IF thrown.err = "OK"
                   THEN [@ EXCEPT !.pc = "mkdir", !.wrote = TRUE]
                   ELSE Answered(@, errorHandler(thrown.value))]
  /\ last' = NoExchange
  /\ UNCHANGED <<dirs, files, beyondRegistry>>

\* FilesystemStorage.write: mkdir(join(fullPath, '..'), {recursive: true})
PostMkdir(i) ==
  /\ reqs[i].pc = "mkdir"
  /\ LET component == ComponentSchemaParse(reqs[i].body).value
         path == ComponentPath(component.metadata.name, component.metadata.version)
         made == mkdir(join(path \o <<"..">>))
     IN /\ dirs' = made.value
        /\ reqs' = [reqs EXCEPT ![i] =
                      IF made.err = "OK" THEN [@ EXCEPT !.pc = "writeFile"]
                      ELSE Answered(@, errorHandler(FsError(made.err)))]
  /\ last' = NoExchange
  /\ UNCHANGED <<files, beyondRegistry>>

\* FilesystemStorage.write: writeFile(fullPath, content)
PostWriteFile(i) ==
  /\ reqs[i].pc = "writeFile"
  /\ LET component == ComponentSchemaParse(reqs[i].body).value
         path == ComponentPath(component.metadata.name, component.metadata.version)
         written == writeFile(join(path), JSONstringify(component))
     IN /\ files' = written.value
        /\ reqs' = [reqs EXCEPT ![i] =
                      IF written.err = "OK" THEN [@ EXCEPT !.pc = "respond"]
                      ELSE Answered(@, errorHandler(FsError(written.err)))]
  /\ last' = NoExchange
  /\ UNCHANGED <<dirs, beyondRegistry>>

\* create() answering with an error after storage.write has resolved.
PostRespondWithError(i) ==
  /\ reqs[i].pc = "respond"
  /\ reqs' = [reqs EXCEPT ![i] = Answered(@, errorHandler(FsError("EIO")))]
  /\ last' = NoExchange
  /\ UNCHANGED <<dirs, files, beyondRegistry>>

\* res.status(201).json(component)
PostRespond(i) ==
  /\ reqs[i].pc = "respond"
  /\ reqs' = [reqs EXCEPT ![i] =
                Answered(@, Created(ComponentSchemaParse(reqs[i].body).value))]
  /\ last' = NoExchange
  /\ UNCHANGED <<dirs, files, beyondRegistry>>

\* ------------------------------------------------------------ requests

Names == {<<"a">>, <<"b">>}
Versions == {<<"2.0.0">>, <<"10.0.0">>}

\* The (name, version) pairs of GET /components/:name/versions/:version.
\* Express decodes a route parameter after it has matched it, so that
\* /versions/2.0.0%2Fcomponent.json gives the version "2.0.0/component.json".
VersionRequests ==
  (Names \X Versions) \cup {<<(<<"a">>), <<"2.0.0", "component.json">>>>}

Component(name, version, description) ==
  [metadata |-> [name |-> name, version |-> version, description |-> description],
   files |-> <<>>]

\* The bodies of the POST requests: two contents for one (name, version), a
\* second version of that name, a version with a '/' whose manifest lies
\* below the manifest path of that one, a second name without a
\* description, and a body whose metadata.name is missing.
Bodies ==
  {Component(<<"a">>, <<"10.0.0">>, "first"),
   Component(<<"a">>, <<"10.0.0">>, "second"),
   Component(<<"a">>, <<"2.0.0">>, "first"),
   Component(<<"a">>, <<"2.0.0", "component.json">>, "first"),
   [metadata |-> [name |-> <<"b">>, version |-> <<"2.0.0">>], files |-> <<>>],
   [metadata |-> [version |-> <<"2.0.0">>], files |-> <<>>]}

NotGiven == [given |-> FALSE]
NonNumeric == [given |-> TRUE, text |-> TRUE]
Number(i) == [given |-> TRUE, text |-> FALSE, n |-> i]

Query(page, pageSize) == [page |-> page, pageSize |-> pageSize]

\* The query strings of GET /components: none, non-numeric, zero, in range,
\* beyond the list, negative.
ListQueries ==
  {Query(NotGiven, NotGiven), Query(NonNumeric, NonNumeric),
   Query(Number(0), Number(0)), Query(Number(1), Number(1)),
   Query(Number(2), Number(1)), Query(Number(3), Number(1)),
   Query(Number(1), Number(2)), Query(Number(-1), Number(2)),
   Query(Number(1), Number(-1))}

GetList(query) ==
  /\ last = NoExchange
  /\ last' = [route |-> "list", query |-> query, response |-> list(query)]
  /\ UNCHANGED <<dirs, files, reqs, beyondRegistry>>

GetDetails(name) ==
  /\ last = NoExchange
  /\ last' = [route |-> "details", name |-> name, response |-> getDetails(name)]
  /\ UNCHANGED <<dirs, files, reqs, beyondRegistry>>

GetVersion(name, version) ==
  /\ last = NoExchange
  /\ last' = [route |-> "version", name |-> name, version |-> version,
              response |-> getVersion(name, version)]
  /\ UNCHANGED <<dirs, files, reqs, beyondRegistry>>

\* ------------------------------------------------------------ specification

\* An empty storage root and no request yet.
Init ==
  /\ dirs = {<<>>}
  /\ files = <<>>
  /\ reqs = <<>>
  /\ last = NoExchange
  /\ call = NoCall
  /\ history = <<>>
  /\ cli = NotStarted
  /\ tx = NoTransaction
  /\ resolution = [pc |-> "idle"]

Next ==
  \/ \E body \in Bodies : PostArrive(body)
  \/ \E i \in DOMAIN reqs : PostRead(i)
  \/ \E i \in DOMAIN reqs : PostMkdir(i)
  \/ \E i \in DOMAIN reqs : PostWriteFile(i)
  \/ \E i \in DOMAIN reqs : PostRespond(i)
  \/ \E query \in ListQueries : GetList(query)
  \/ \E name \in Names : GetDetails(name)
  \/ \E r \in VersionRequests : GetVersion(r[1], r[2])

Spec == Init /\ [][Next]_vars

\* ------------------------------------------------------------ names and versions with '/' and '..'

\* Bodies whose name or version holds a '/' or is '..': ComponentSchema
\* takes any string for both.  The first two differ in name and in version.
NameBodies ==
  {Component(<<"a">>, <<"b", "2.0.0">>, "first"),
   Component(<<"a", "b">>, <<"2.0.0">>, "second"),
   Component(<<"..">>, <<"2.0.0">>, "first"),
   Component(<<"..">>, <<"..">>, "first"),
   Component(<<"a">>, <<"2.0.0">>, "first")}

\* The (name, version) pairs asked for: /components/a%2Fb/versions/2.0.0 and
\* /components/%2E%2E/versions/%2E%2E among them.
NameRequests ==
  {<<(<<"a", "b">>), <<"2.0.0">>>>, <<(<<"a">>), <<"b", "2.0.0">>>>,
   <<(<<"..">>), <<"..">>>>, <<(<<"a">>), <<"2.0.0">>>>}

NamesNext ==
  \/ \E body \in NameBodies : PostArrive(body)
  \/ \E i \in 1..Len(reqs) : PostRead(i)
  \/ \E i \in 1..Len(reqs) : PostMkdir(i)
  \/ \E i \in 1..Len(reqs) : PostWriteFile(i)
  \/ \E i \in 1..Len(reqs) : PostRespond(i)
  \/ \E r \in NameRequests : GetVersion(r[1], r[2])

NamesSpec == Init /\ [][NamesNext]_vars

\* ------------------------------------------------------------ GET on a storage root as found

\* What a manifest file can hold when the registry starts on a storage root
\* it did not fill itself: a component, an object whose metadata has no
\* name, and an object without metadata.
Manifests(name, version) ==
  {JSONstringify(Component(name, version, "first")),
   JSONstringify([metadata |-> [version |-> version], files |-> <<>>]),
   JSONstringify([files |-> <<>>])}

\* The manifest paths of a storage root as found.
StoredPaths ==
  {join(ComponentPath(<<"a">>, <<"2.0.0">>)), join(ComponentPath(<<"a">>, <<"10.0.0">>)),
   join(ComponentPath(<<"b">>, <<"2.0.0">>))}

\* The name and the version a stored path stands for.
NameOf(p) == <<p[2]>>
VersionOf(p) == <<p[3]>>

\* The registry starts on a storage root that holds some manifests.
StoredInit ==
  /\ \E paths \in SUBSET StoredPaths :
       /\ files \in {f \in [paths -> UNION {Manifests(NameOf(p), VersionOf(p)) : p \in paths}] :
                       \A p \in paths : f[p] \in Manifests(NameOf(p), VersionOf(p))}
       /\ dirs = {<<>>} \cup UNION {ProperPrefixes(p) : p \in paths}
  /\ reqs = <<>>
  /\ last = NoExchange
  /\ call = NoCall
  /\ history = <<>>
  /\ cli = NotStarted
  /\ tx = NoTransaction
  /\ resolution = [pc |-> "idle"]

StoredNext ==
  \/ \E query \in ListQueries : GetList(query)
  \/ \E name \in Names : GetDetails(name)
  \/ \E r \in VersionRequests : GetVersion(r[1], r[2])

StoredSpec == StoredInit /\ [][StoredNext]_vars

\* ------------------------------------------------------------ errorHandler alone

\* Errors given to errorHandler one after the other.
MaxErrors == 2

\* The errors next(error) can carry: a ZodError, APIErrors with the three
\* codes of the controller and with other codes, and file system errors.
Errors ==
  {ZodError}
  \cup {APIError(code, message) :
          code \in {"COMPONENT_NOT_FOUND", "VERSION_NOT_FOUND", "VERSION_CONFLICT",
                    "RATE_LIMITED", "constructor"},
          message \in {"Component not found", "Version already exists"}}
  \cup {FsError(code) : code \in {"ENOENT", "EACCES"}}

\* app.use(errorHandler): one error is handled; history keeps the error and
\* what errorHandler sent.
HandleNext(error) ==
  /\ Len(history) < MaxErrors
  /\ history' = Append(history, [error |-> error, response |-> errorHandler(error)])
  /\ UNCHANGED <<dirs, files, reqs, last, call, cli, tx, resolution>>

ErrorNext == \E error \in Errors : HandleNext(error)

ErrorSpec == Init /\ [][ErrorNext]_vars

\* ------------------------------------------------------------ what is published

\* The POST requests whose body passes ComponentSchema.
Valid(i) == ComponentSchemaParse(reqs[i].body).err = "OK"

\* The storage path of the manifest a valid request carries.
PathOf(i) ==
  join(ComponentPath(reqs[i].body.metadata.name, reqs[i].body.metadata.version))

\* The versions of a name that have a manifest in storage.
PublishedVersions(name) ==
  {v \in Versions : join(ComponentPath(name, v)) \in DOMAIN files}

\* The names that have at least one manifest in storage.
PublishedNames == {n \in Names : PublishedVersions(n) # {}}

\* The manifest stored for (name, version).
Stored(name, version) == JSONparse(files[join(ComponentPath(name, version))])

\* No POST is between its arrival and its response.
Quiescent == \A i \in DOMAIN reqs : reqs[i].pc = "done"

\* The greatest version string of a set, in the order of sort().
Greatest(V) == CHOOSE v \in V : \A w \in V \ {v} : StringLess(w, v)

\* ------------------------------------------------------------ claims

\* The requests answered 201.
Succeeded(i) == reqs[i].response.status = 201

\* C1: the manifest stored for a published (name, version) is the body of
\* the first POST answered 201 for it, and no later step changes or removes
\* it.  As a property of every step: when the first 201 for a path is sent,
\* the file at the path holds that request's body; once a 201 has been sent
\* for a path, the file at the path is the same after the step as before.
C1_ManifestImmutable ==
  [][\A i \in DOMAIN reqs' :
       (Valid(i)' /\ Succeeded(i)') =>
         LET p == PathOf(i)'
             published == \E j \in DOMAIN reqs : Valid(j) /\ Succeeded(j) /\ PathOf(j) = p
         IN /\ p \in DOMAIN files'
            /\ published => (p \in DOMAIN files /\ files'[p] = files[p])
            /\ ~published => files'[p] = JSONstringify(reqs'[i].body)]_vars

\* C2: a POST of a schema-valid component whose manifest path was already
\* stored when it arrived never gets as far as storage.write, and is
\* answered 409 VERSION_CONFLICT.
C2_ConflictNoWrite ==
  \A i \in DOMAIN reqs :
    (Valid(i) /\ reqs[i].existed) =>
      /\ reqs[i].pc \in {"read", "done"}
      /\ ~reqs[i].wrote
      /\ reqs[i].pc = "done" =>
           /\ reqs[i].response.status = 409
           /\ reqs[i].response.body.code = "VERSION_CONFLICT"

C2_Witness ==
  \E i \in DOMAIN reqs :
    /\ Valid(i) /\ reqs[i].existed /\ reqs[i].pc = "done"
    /\ reqs[i].response.status = 409

\* C3: of two POSTs that carry the same (name, version) and different
\* content at most one is answered 201, and the manifest of the one that was
\* answered 201 is the stored one.
C3_OneWinner ==
  \A i, j \in DOMAIN reqs :
    (/\ i # j /\ Valid(i) /\ Valid(j)
     /\ PathOf(i) = PathOf(j)
     /\ reqs[i].body # reqs[j].body
     /\ Succeeded(i)) =>
      /\ ~Succeeded(j)
      /\ files[PathOf(i)] = JSONstringify(reqs[i].body)

\* C4: once a POST of a component c that was not stored yet has been
\* answered 201, storage holds c at components/{name}/{version}/component.json
\* and GET /components/{name}/versions/{version} answers 200 with c.
C4_CreateThenGet ==
  \A i \in DOMAIN reqs :
    (Valid(i) /\ ~reqs[i].existed /\ Succeeded(i)) =>
      LET c == reqs[i].body IN
      /\ PathOf(i) \in DOMAIN files
      /\ files[PathOf(i)] = JSONstringify(c)
      /\ getVersion(c.metadata.name, c.metadata.version) = Ok(c)

\* C5: with no POST in progress, GET /components/{name} for a name with
\* k >= 1 published versions answers 200 with exactly k version entries, one for each published
\* version.
C5_DetailsListsEveryVersion ==
  (Quiescent /\ last.route = "details" /\ PublishedVersions(last.name) # {}) =>
    /\ last.response.status = 200
    /\ Len(last.response.body.versions) = Cardinality(PublishedVersions(last.name))
    /\ {e.version : e \in Range(last.response.body.versions)}
         = PublishedVersions(last.name)

\* C6: with no POST in progress, the component of GET /components/{name} and every latestVersion of
\* GET /components belong to the greatest published version of the name.
C6_LatestIsGreatest ==
  /\ (Quiescent /\ last.route = "details" /\ PublishedVersions(last.name) # {}) =>
       /\ last.response.status = 200
       /\ last.response.body.component
            = Stored(last.name, Greatest(PublishedVersions(last.name)))
  /\ (Quiescent /\ last.route = "list" /\ last.response.status = 200) =>
       \A e \in Range(last.response.body.components) :
         /\ e.name \in PublishedNames
         /\ e.latestVersion = Greatest(PublishedVersions(e.name))

\* C7: with no POST in progress, GET /components reports one entry for each name that has a published
\* version, with its name, latest version and description, and total is the
\* number of those names.
C7_ListReportsEveryName ==
  (Quiescent /\ last.route = "list" /\ last.query = Query(NotGiven, NotGiven)) =>
    /\ last.response.status = 200
    /\ last.response.body.total = Cardinality(PublishedNames)
    /\ Len(last.response.body.components) = Cardinality(PublishedNames)
    /\ {e.name : e \in Range(last.response.body.components)} = PublishedNames
    /\ \A e \in Range(last.response.body.components) :
         e = ListEntry(Stored(e.name, e.latestVersion))

Min(a, b) == IF a < b THEN a ELSE b
Max(a, b) == IF a > b THEN a ELSE b

\* The number of pages of size s that hold n entries.
Pages(n, s) == (n + s - 1) \div s

\* The names on page k of size s, on the present file tree.
NamesOnPage(k, s) ==
  LET r == list(Query(Number(k), Number(s)))
  IN IF r.status = 200 THEN [i \in DOMAIN r.body.components |-> r.body.components[i].name]
     ELSE <<>>

RECURSIVE Sum(_, _)
Sum(f, n) == IF n = 0 THEN 0 ELSE f[n] + Sum(f, n - 1)

\* C8: with no POST in progress, GET /components?page=p&pageSize=s for
\* p >= 1 and s >= 1 echoes p and s, reports the number of published names as
\* total and returns the entries at positions (p-1)*s .. p*s-1 of them: as
\* many as the page holds, and pages 1..ceil(total/s) together hold every
\* published name once.
C8_Pagination ==
  (/\ Quiescent
   /\ last.route = "list"
   /\ last.query.page.given /\ ~last.query.page.text /\ last.query.page.n >= 1
   /\ last.query.pageSize.given /\ ~last.query.pageSize.text /\ last.query.pageSize.n >= 1) =>
    LET p == last.query.page.n
        s == last.query.pageSize.n
        total == Cardinality(PublishedNames)
        sizes == [k \in 1..Pages(total, s) |-> Len(NamesOnPage(k, s))]
    IN /\ last.response.status = 200
       /\ last.response.body.page = p
       /\ last.response.body.pageSize = s
       /\ last.response.body.total = total
       /\ Len(last.response.body.components) = Min(s, Max(0, total - (p - 1) * s))
       /\ Sum(sizes, Pages(total, s)) = total
       /\ UNION {Range(NamesOnPage(k, s)) : k \in 1..Pages(total, s)} = PublishedNames

\* C9: when storage holds no component, GET /components without query
\* parameters answers 200 with the body {components: [], total: 0} and no
\* other field.
C9_EmptyList ==
  (/\ DOMAIN files = {}
   /\ last.route = "list"
   /\ last.query = Query(NotGiven, NotGiven)) =>
    /\ last.response.status = 200
    /\ DOMAIN last.response.body = {"components", "total"}
    /\ last.response.body.components = <<>>
    /\ last.response.body.total = 0

\* C10: a POST whose body fails ComponentSchema is answered 400
\* VALIDATION_ERROR on arrival and never reaches storage.write.
C10_InvalidRejected ==
  \A i \in DOMAIN reqs :
    ~Valid(i) =>
      /\ reqs[i].pc = "done"
      /\ ~reqs[i].wrote
      /\ reqs[i].response.status = 400
      /\ reqs[i].response.body.code = "VALIDATION_ERROR"

C10_Witness ==
  \E i \in DOMAIN reqs :
    /\ ~Valid(i)
    /\ "name" \notin DOMAIN reqs[i].body.metadata
    /\ reqs[i].response.status = 400

\* C11: a GET /components/{name}/versions/{version} for a (name, version)
\* that has no manifest in storage is answered 404 with the code
\* VERSION_NOT_FOUND, whether or not the name has other versions.
C11_MissingVersionIs404 ==
  (/\ last.route = "version"
   /\ join(ComponentPath(last.name, last.version)) \notin DOMAIN files)
  => (/\ last.response.status = 404
      /\ last.response.body.code = "VERSION_NOT_FOUND")

\* C12: a GET /components/{name} is answered 404 COMPONENT_NOT_FOUND for a
\* name with no published version and without an error for a name with at
\* least one.  Stated with no POST in flight.
C12_DetailsNotFoundOrOk ==
  (last.route = "details" /\ Quiescent)
  => IF PublishedVersions(last.name) = {}
     THEN /\ last.response.status = 404
          /\ last.response.body.code = "COMPONENT_NOT_FOUND"
     ELSE last.response.status = 200

\* C13: after any sequence of write and delete calls of FilesystemStorage,
\* read(p) resolves with the content of the most recent write to p that
\* resolved when no delete of p resolved after it, and rejects when p was
\* never written or was deleted since.  A path is the file it names: two
\* spellings that path.join normalizes to the same path are one p.
C13_ReadReturnsLastWrite ==
  call.op = "read"
  => LET p == join(call.path) IN
     IF p \in DOMAIN history /\ ~history[p].deleted
     THEN call.err = "OK" /\ call.value = history[p].content
     ELSE call.err # "OK"

\* A read that resolves on a path that was written again after an earlier
\* write or delete of it.
C13_Witness ==
  /\ call.op = "read"
  /\ call.err = "OK"
  /\ history[join(call.path)].again

\* The files below a prefix, as paths relative to the root.
FilesUnder(prefix) ==
  {p \in DOMAIN files : IsPrefix(join(prefix), p) /\ p # join(prefix)}

\* C14: list(prefix) resolves with exactly the files stored under the
\* directory prefix, each once, as its path relative to the root: no file
\* from outside the prefix and no directory; with nothing stored under the
\* prefix it resolves with the empty list.  Stated for a prefix that is a
\* directory or does not exist.
C14_ListIsFilesUnderPrefix ==
  (call.op = "list" /\ join(call.path) \notin DOMAIN files)
  => /\ call.err = "OK"
     /\ Range(call.value) = FilesUnder(call.path)
     /\ Len(call.value) = Cardinality(FilesUnder(call.path))

\* The add action ran: it is what logs.
AddRan == cli.pc = "ended" /\ cli.logs # <<>>

\* C15: running the CLI with `add <component>` calls
\* installComponent(component, version) on the ComponentManager exactly
\* once, and version is undefined when no version option is given.
C15_AddCallsInstallOnce ==
  AddRan
  => /\ Len(cli.calls) = 1
     /\ cli.calls[1].method = "installComponent"
     /\ cli.calls[1].name = cli.logs[1][2]
     /\ ("-v" \notin Range(cli.argv) /\ "--version" \notin Range(cli.argv))
          => "version" \notin DOMAIN cli.calls[1]

\* The target paths and the temporary paths of the transaction.
TargetPaths == {StagedFile(i).targetPath : i \in 1..tx.n}
TempPaths == {StagedFile(i).tempPath : i \in 1..tx.n}

\* A path holds what it held before the install: nothing, or the same
\* content.
AsBefore(p) ==
  /\ p \in DOMAIN files <=> p \in DOMAIN tx.pre
  /\ p \in DOMAIN files => files[p] = tx.pre[p]

\* C16: when the promotion of a staged file fails partway through a
\* transaction, then after the rollback every target path is as it was
\* before the install and no temporary file remains; an install that has
\* ended is applied in full or not at all.
C16_AtomicInstall ==
  /\ (tx.pc = "rolledBack" /\ tx.error.kind = "PromotionFailure")
      => /\ \A p \in TargetPaths : AsBefore(p)
         /\ \A p \in TempPaths : p \notin DOMAIN files
  /\ tx.pc = "committed"
      => /\ \A p \in TargetPaths : p \in DOMAIN files /\ files[p] = "new"
         /\ \A p \in TempPaths : p \notin DOMAIN files

\* A rollback that has ended, after the promotion of the last of three
\* files failed, the first of which replaced a file.
C16_Witness ==
  /\ tx.pc = "rolledBack"
  /\ tx.error.kind = "PromotionFailure"
  /\ tx.error.index = 3
  /\ <<TargetNames[1]>> \in DOMAIN tx.pre

RECURSIVE Sequential(_, _)
Sequential(set, b) ==
  IF b.error.kind # "none" \/ \A i \in DOMAIN b.queue : b.queue[i].applied THEN b
  ELSE LET i == CHOOSE k \in DOMAIN b.queue :
                  ~b.queue[k].applied /\ \A j \in 1..(k - 1) : b.queue[j].applied
           ref == b.queue[i].ref
       IN IF answer(set, ref) # "ok"
          THEN [b EXCEPT !.error = [kind |-> answer(set, ref), ref |-> ref]]
          ELSE Sequential(set, applyNode(b, i, set[ref]))

\* What a caller sees of a resolve: the flattened component map and its
\* order, the conflict choices, the merged package map, the error.
Outcome(b) ==
  [flattenedComponents |-> b.resolved, order |-> b.order, conflicts |-> b.conflicts,
   npmPackages |-> b.packages, error |-> b.error]

Terminated == resolution.pc \in {"done", "failed"}

NetworkError == resolution.book.error.kind \in {"Unreachable", "Timeout"}

\* The names a chosen component depends on.
Successors(set, resolved, name) ==
  IF answer(set, resolved[name]) = "ok"
  THEN {d.name : d \in Range(set[resolved[name]].deps)} \cap DOMAIN resolved
  ELSE {}

RECURSIVE ReachableFrom(_, _, _)
ReachableFrom(set, resolved, S) ==
  LET more == S \cup UNION {Successors(set, resolved, n) : n \in S}
  IN IF more = S THEN S ELSE ReachableFrom(set, resolved, more)

\* The chosen components depend on one another in a cycle.
HasCycle(set, resolved) ==
  \E n \in DOMAIN resolved :
    n \in ReachableFrom(set, resolved, Successors(set, resolved, n))

\* C18, at every state: a resolve that succeeds returns no cycle; a
\* CyclicDependency names a cycle of declared dependencies; resolve(A) on
\* A -> B -> C -> A ends, unless the network fails it, with CyclicDependency
\* naming A, B, C, A; and no queued node has a name twice on its path, which
\* bounds the traversal.
CycleSafety ==
  resolution.pc # "idle" =>
    LET set == ManifestSets[resolution.set]
        b == resolution.book
    IN /\ resolution.pc = "done" => ~HasCycle(set, b.resolved)
       /\ b.error.kind = "CyclicDependency" =>
            /\ Len(b.error.cycle) >= 2
            /\ b.error.cycle[1] = b.error.cycle[Len(b.error.cycle)]
            /\ \A k \in 1..(Len(b.error.cycle) - 1) :
                 b.error.cycle[k + 1] \in Successors(set, b.resolved, b.error.cycle[k])
       /\ (resolution.set = "cycle" /\ Terminated /\ ~NetworkError) =>
            /\ resolution.pc = "failed"
            /\ b.error.kind = "CyclicDependency"
            /\ b.error.cycle = <<"A", "B", "C", "A">>
       /\ \A i \in DOMAIN b.queue :
            Cardinality(Range(b.queue[i].path)) = Len(b.queue[i].path)

\* C18: resolving a component whose transitive dependencies contain a cycle
\* fails with CyclicDependency naming the cycle; a resolve never succeeds
\* with a cycle in its result, and every resolve ends.
C18_CycleFails == []CycleSafety /\ <>Terminated

\* resolve(A) on A -> B -> C -> A has failed with the cycle A, B, C, A.
C18_Witness ==
  /\ resolution.pc = "failed"
  /\ resolution.set = "cycle"
  /\ resolution.book.error.kind = "CyclicDependency"
  /\ resolution.book.error.cycle = <<"A", "B", "C", "A">>

\* C19: for a fixed manifest set and root, every resolve that the network
\* does not fail ends with the same flattened component map, the same
\* conflict choices, the same merged package map and the same error,
\* whatever the order in which the fetches complete: those of the
\* bookkeeping done in the order of the traversal.
C19_Deterministic ==
  (Terminated /\ ~NetworkError)
  => Outcome(resolution.book)
       = Outcome(Sequential(ManifestSets[resolution.set], Begin(Root)))

\* A resolve has succeeded with a version conflict decided, and the fetch of
\* C completed before the fetch of B, which the traversal meets first.
C19_Witness ==
  /\ resolution.pc = "done"
  /\ resolution.book.conflicts # <<>>
  /\ \E i, j \in DOMAIN resolution.completed :
       /\ i < j
       /\ resolution.completed[i] = Ref("C", "1")
       /\ resolution.completed[j] = Ref("B", "1")

\* C20: a fetch is attempted again only after an Unreachable or a timeout,
\* and at most MaxAttempts times in all; an error is surfaced when it is
\* NotFound or InvalidManifest, at once, or when the last of MaxAttempts
\* attempts has failed.
C20_BoundedRetry ==
  resolution.pc # "idle" =>
    \A ref \in DOMAIN resolution.fetch :
      LET f == resolution.fetch[ref] IN
      /\ Len(f.log) <= MaxAttempts
      /\ \A k \in 1..(Len(f.log) - 1) : f.log[k] \in {"Unreachable", "Timeout"}
      /\ f.status = "failed" =>
           \/ f.log[Len(f.log)] \in {"NotFound", "InvalidManifest"}
           \/ /\ f.log[Len(f.log)] \in {"Unreachable", "Timeout"}
              /\ Len(f.log) = MaxAttempts
      /\ f.status = "ok" => f.log[Len(f.log)] = "ok"
      /\ (f.status = "pending" /\ f.log # <<>>) =>
           f.log[Len(f.log)] \in {"Unreachable", "Timeout"}

\* A resolve has failed with Unreachable after MaxAttempts attempts of one
\* fetch, the first of which timed out.
C20_Witness ==
  /\ resolution.pc = "failed"
  /\ resolution.book.error.kind = "Unreachable"
  /\ \E ref \in DOMAIN resolution.fetch :
       /\ Len(resolution.fetch[ref].log) = MaxAttempts
       /\ resolution.fetch[ref].log[1] = "Timeout"
       /\ resolution.fetch[ref].status = "failed"

\* C21: a cancellation before the promotion phase leaves every file of the
\* target project as it was: no target path changes at any time and, when
\* the cancelled install has ended, the files are those from before it.  A
\* cancellation during promotion ends as a promotion failure does: rolled
\* back, every target path as before and no temporary file left.
C21_CancelLeavesTargetUntouched ==
  (tx.pc # "idle" /\ tx.error.kind = "Cancelled")
  => /\ tx.error.during = "stage" => \A p \in TargetPaths : AsBefore(p)
     /\ tx.pc \in {"rollback", "rolledBack"}
     /\ tx.pc = "rolledBack" => files = tx.pre

\* An install of three files, cancelled during promotion after a file that
\* replaced another was promoted, has ended.
C21_Witness ==
  /\ tx.pc = "rolledBack"
  /\ tx.error.kind = "Cancelled"
  /\ tx.error.during = "promote"
  /\ tx.n = 3
  /\ <<TargetNames[1]>> \in DOMAIN tx.pre

\* C22: the add subcommand run with --dry-run performs resolution and
\* transformation and promotes no file: the command is carried out, the
\* process ends with code 0 and the target project is as before.
C22_DryRunSkipsPromotion ==
  (cli.pc = "ended" /\ cli.argv = <<"add", "button", "--dry-run">>)
  => /\ cli.exit = 0
     /\ AddRan
     /\ files = <<>>

\* C23: no error escapes CLI.run: a process that ends with a non-zero
\* code has given its error to handleError, which logged one message with
\* logger.error and exited with code 1; a run without an error ends with
\* code 0.
C23_FailuresGoThroughHandleError ==
  (cli.pc = "ended" /\ cli.exit # 0)
  => /\ cli.exit = 1
     /\ Len(cli.errors) = 1
     /\ cli.out = "none"

\* C24: `add <component>` logs exactly the line 'Adding component
\* <component> from <registry> registry', with the value of --registry or
\* 'local', whatever --version and --force are.
C24_AddLogsRegistryLine ==
  (/\ cli.pc = "ended"
   /\ cli.argv \in {<<"add", "button">>, <<"add", "button", "--force">>,
                    <<"add", "button", "--registry", "git">>,
                    <<"add", "button", "-v", "1.0.0">>,
                    <<"add", "button", "--version", "1.0.0">>})
  => cli.logs = <<AddingLine("button", IF "--registry" \in Range(cli.argv)
                                        THEN "git" ELSE "local")>>

\* C25: errorHandler answers every error, and always the same way: a
\* ZodError with 400 VALIDATION_ERROR; an APIError with 404 for
\* COMPONENT_NOT_FOUND and VERSION_NOT_FOUND, 409 for VERSION_CONFLICT and
\* 500 for any other code, with the error's own code and message; any other
\* error with 500 INTERNAL_ERROR.  No error is answered with a 2xx status.
C25_ErrorHandlerTotal ==
  \A i \in 1..Len(history) :
    LET error == history[i].error
        response == history[i].response
    IN /\ response.status \notin 200..299
       /\ error.type = "ZodError"
          => response.status = 400 /\ response.body.code = "VALIDATION_ERROR"
       /\ error.type = "APIError"
          => /\ response.status =
                  (CASE error.code \in {"COMPONENT_NOT_FOUND", "VERSION_NOT_FOUND"} -> 404
                     [] error.code = "VERSION_CONFLICT" -> 409
                     [] OTHER -> 500)
             /\ response.body = [code |-> error.code, message |-> error.message]
       /\ error.type \notin {"ZodError", "APIError"}
          => response.status = 500 /\ response.body.code = "INTERNAL_ERROR"

\* The manifest path of the i-th POST, as the file system sees it.
ManifestPath(i) ==
  LET component == ComponentSchemaParse(reqs[i].body).value
  IN join(ComponentPath(component.metadata.name, component.metadata.version))

\* The paths whose file is not the same before and after a step.
ChangedPaths ==
  {p \in DOMAIN files \cup DOMAIN files' :
     \/ p \notin DOMAIN files
     \/ p \notin DOMAIN files'
     \/ files[p] # files'[p]}

\* C26: a GET handler leaves the storage as it is; a step of a POST changes
\* at most the one file components/{name}/{version}/component.json of its
\* request, and the request that wrote it is then answered 201, so that a
\* POST answered with an error has written nothing; no step removes a
\* stored file.  (A stored path is a path storage.read can return.)
C26_FrameOfHandlers ==
  [][/\ DOMAIN files \subseteq DOMAIN files'
     /\ (last' # last /\ last'.route # "none") => (files' = files /\ dirs' = dirs)
     /\ files' # files
        => \E i \in 1..Len(reqs) :
             /\ reqs[i].pc = "writeFile"
             /\ reqs'[i].pc = "respond"
             /\ ChangedPaths = {ManifestPath(i)}
     /\ \A i \in 1..Len(reqs) :
          (reqs[i].pc = "respond" /\ reqs'[i].pc = "done")
          => reqs'[i].response.status = 201]_vars

\* A first POST answered 201 with its manifest stored, a second POST of the
\* same version answered 409 and the manifest still that of the first, and
\* a GET answered on that storage.
C26_Witness ==
  /\ Len(reqs) = 2
  /\ reqs[1].pc = "done" /\ reqs[1].response.status = 201
  /\ reqs[2].pc = "done" /\ reqs[2].response.status = 409
  /\ ManifestPath(1) = ManifestPath(2)
  /\ reqs[1].body # reqs[2].body
  /\ JSONparse(files[ManifestPath(1)]) = ComponentSchemaParse(reqs[1].body).value
  /\ last.route = "version" /\ last.response.status = 200

\* ComponentDetailResponseSchema: a component and versions with their three
\* strings.
SatisfiesDetailResponseSchema(body) ==
  /\ ComponentSchemaParse(body.component).err = "OK"
  /\ \A i \in 1..Len(body.versions) :
       {"version", "createdAt", "updatedAt"} \subseteq DOMAIN body.versions[i]

C28_PaginationBounds ==
  (last.route = "list" /\ last.response.status = 200)
  => LET body == last.response.body IN
     /\ body.page >= 1
     /\ body.pageSize >= 1
     /\ (body.page - 1) * body.pageSize >= 0
     /\ Len(body.components) <= body.pageSize

\* The name and the version of the i-th POST, and the storage path create()
\* builds from them.
NameAndVersion(i) ==
  LET metadata == ComponentSchemaParse(reqs[i].body).value.metadata
  IN <<metadata.name, metadata.version>>

StoragePathOf(i) == ComponentPath(NameAndVersion(i)[1], NameAndVersion(i)[2])

\* C29: two (name, version) pairs that ComponentSchema accepts and that
\* differ have different storage paths components/{name}/{version}/
\* component.json, also when a name or a version holds a '/'.
C29_PathInjective ==
  \A i, j \in 1..Len(reqs) :
    (Valid(i) /\ Valid(j) /\ NameAndVersion(i) # NameAndVersion(j))
    => StoragePathOf(i) # StoragePathOf(j)

\* C30: every file a registry request writes or reads lies inside the
\* storage root, and inside its components directory, whatever name and
\* version the schema accepted ('..' included).
C30_InsideComponents ==
  /\ \A p \in DOMAIN files : p # <<>> /\ p[1] = "components"
  /\ last.route = "version"
     => LET p == join(ComponentPath(last.name, last.version))
        IN p # <<>> /\ p[1] = "components"

====
